---- MODULE Spec2Model ----
(***************************************************************************)
(* A model of blm.BacklashModel (src/blm/backlash_model.py): the backlash  *)
(* model with linear decision boundaries of Voros (2008).                  *)
(*                                                                         *)
(* Numbers.  A float is a binary64 value with its sign, also of zero, its  *)
(* infinities and NaN; each operation rounds as IEEE 754 does.  A numpy    *)
(* array is a sequence; the fields of the model are 1-d arrays             *)
(* (np.atleast_1d), None is <<>>.                                          *)
(***************************************************************************)
EXTENDS Integers, Sequences, FiniteSets, TLC

VARIABLES
    self,   \* the instance's fields: m_lo, m_up, c_lo, c_up, x_prev
    obj,    \* "none": not constructed, "live": usable, "dead": constructor raised
    op,     \* the last operation: "none", "ctor", "reset", "call", "fit"
    arg,    \* what the last operation was given: of __call__ u; of fit whether
            \* the three shapes were equal and, if so, x_prev[0] and num_epoch
    ret,    \* what the last operation returned (None when nothing or it raised)
    err,    \* what the last operation raised ("ok" when it returned)
    br      \* the branch the last __call__ took: "lo", "up", "hold" ("none" otherwise)

vars == <<self, obj, op, arg, ret, err, br>>

----------------------------------------------------------------------------
(* Bounds of the model *)

\* inputs u of __call__ range over -MaxU .. MaxU
MaxU == 2

\* data sets given to fit hold 1 .. MaxSamples samples
MaxSamples == 2

\* fit is called with num_epoch in 0 .. MaxEpoch
MaxEpoch == 1

----------------------------------------------------------------------------
(* Natural numbers of any size: the sequence of the digits in base 2^15,   *)
(* lowest first, without leading zeros.  They carry the 53-bit significand *)
(* of a binary64 float and the exact intermediate results.  The digit      *)
(* loops split their range in halves, so that they nest only to the        *)
(* logarithm of the length.                                                *)

Base == 2^15

Abs(i) == IF i < 0 THEN -i ELSE i

Max(a, b) == IF a >= b THEN a ELSE b

Min(a, b) == IF a <= b THEN a ELSE b

\* digit i of a, 0 above its length
Dig(a, i) == IF i <= Len(a) THEN a[i] ELSE 0

\* a without leading zeros
BNorm(a) ==
    IF a = <<>> \/ a[Len(a)] # 0 THEN a
    ELSE IF \A i \in 1..Len(a) : a[i] = 0 THEN <<>>
    ELSE SubSeq(a, 1, CHOOSE i \in 1..Len(a) :
                          a[i] # 0 /\ \A j \in (i + 1)..Len(a) : a[j] = 0)

RECURSIVE BFromInt(_)
BFromInt(n) == IF n = 0 THEN <<>> ELSE <<n % Base>> \o BFromInt(n \div Base)

\* -1, 0 or 1 as a < b, a = b or a > b
BCmp(a, b) ==
    IF Len(a) < Len(b) THEN -1
    ELSE IF Len(a) > Len(b) THEN 1
    ELSE IF a = b THEN 0
    ELSE LET i == CHOOSE k \in 1..Len(a) :
                      a[k] # b[k] /\ \A j \in (k + 1)..Len(a) : a[j] = b[j]
         IN  IF a[i] < b[i] THEN -1 ELSE 1

\* the digits lo .. hi of a + b + c and the carry out of them
RECURSIVE BAddR(_, _, _, _, _)
BAddR(a, b, lo, hi, c) ==
    IF lo > hi THEN [d |-> <<>>, c |-> c]
    ELSE IF lo = hi
    THEN LET x == Dig(a, lo) + Dig(b, lo) + c
         IN  [d |-> <<x % Base>>, c |-> x \div Base]
    ELSE LET mid == (lo + hi) \div 2
             L == BAddR(a, b, lo, mid, c)
             H == BAddR(a, b, mid + 1, hi, L.c)
         IN  [d |-> L.d \o H.d, c |-> H.c]

BAdd(a, b) ==
    LET r == BAddR(a, b, 1, Max(Len(a), Len(b)), 0)
    IN  IF r.c = 0 THEN r.d ELSE Append(r.d, r.c)

\* the digits lo .. hi of a - b - c and the borrow out of them
RECURSIVE BSubR(_, _, _, _, _)
BSubR(a, b, lo, hi, c) ==
    IF lo > hi THEN [d |-> <<>>, c |-> c]
    ELSE IF lo = hi
    THEN LET x == a[lo] - Dig(b, lo) - c
         IN  [d |-> <<x % Base>>, c |-> IF x < 0 THEN 1 ELSE 0]
    ELSE LET mid == (lo + hi) \div 2
             L == BSubR(a, b, lo, mid, c)
             H == BSubR(a, b, mid + 1, hi, L.c)
         IN  [d |-> L.d \o H.d, c |-> H.c]

\* a - b for a >= b
BSub(a, b) == BNorm(BSubR(a, b, 1, Len(a), 0).d)

\* the digits lo .. hi of a * k + c and the carry out of them, for k < Base
RECURSIVE BMulSmallR(_, _, _, _, _)
BMulSmallR(a, k, lo, hi, c) ==
    IF lo > hi THEN [d |-> <<>>, c |-> c]
    ELSE IF lo = hi
    THEN LET x == a[lo] * k + c
         IN  [d |-> <<x % Base>>, c |-> x \div Base]
    ELSE LET mid == (lo + hi) \div 2
             L == BMulSmallR(a, k, lo, mid, c)
             H == BMulSmallR(a, k, mid + 1, hi, L.c)
         IN  [d |-> L.d \o H.d, c |-> H.c]

\* a * k for k < Base
BMulSmall(a, k) ==
    IF k = 0 \/ a = <<>> THEN <<>>
    ELSE LET r == BMulSmallR(a, k, 1, Len(a), 0)
         IN  IF r.c = 0 THEN r.d ELSE Append(r.d, r.c)

\* a * Base^n
BShiftLimbs(a, n) == IF a = <<>> THEN <<>> ELSE [i \in 1..n |-> 0] \o a

\* a times the digits lo .. hi of b, at their places
RECURSIVE BMulR(_, _, _, _)
BMulR(a, b, lo, hi) ==
    IF lo = hi THEN BShiftLimbs(BMulSmall(a, b[lo]), lo - 1)
    ELSE BAdd(BMulR(a, b, lo, (lo + hi) \div 2),
              BMulR(a, b, (lo + hi) \div 2 + 1, hi))

BMul(a, b) == IF a = <<>> \/ b = <<>> THEN <<>> ELSE BMulR(a, b, 1, Len(b))

\* a * 2^k
BShl(a, k) == BShiftLimbs(BMulSmall(a, 2^(k % 15)), k \div 15)

\* s in the opposite order
Rev(s) == [i \in 1..Len(s) |-> s[Len(s) + 1 - i]]

\* quotient digits hi .. lo, highest first, and remainder of the digits
\* hi .. lo of a, after the remainder r of the digits above, by d < Base
RECURSIVE BDivSmallR(_, _, _, _, _)
BDivSmallR(a, d, lo, hi, r) ==
    IF lo > hi THEN [q |-> <<>>, r |-> r]
    ELSE IF lo = hi
    THEN LET x == r * Base + a[lo]
         IN  [q |-> <<x \div d>>, r |-> x % d]
    ELSE LET mid == (lo + hi) \div 2
             H == BDivSmallR(a, d, mid + 1, hi, r)
             L == BDivSmallR(a, d, lo, mid, H.r)
         IN  [q |-> H.q \o L.q, r |-> L.r]

\* floor(a / 2^k)
BShr(a, k) ==
    LET t == IF k \div 15 >= Len(a) THEN <<>> ELSE SubSeq(a, k \div 15 + 1, Len(a))
    IN  IF k % 15 = 0 THEN t
        ELSE BNorm(Rev(BDivSmallR(t, 2^(k % 15), 1, Len(t), 0).q))

RECURSIVE SmallBitLen(_)
SmallBitLen(n) == IF n = 0 THEN 0 ELSE 1 + SmallBitLen(n \div 2)

\* the number of bits of a
BBitLen(a) == IF a = <<>> THEN 0 ELSE (Len(a) - 1) * 15 + SmallBitLen(a[Len(a)])

BIsOdd(a) == a # <<>> /\ a[1] % 2 = 1

RECURSIVE SmallTrailingZeros(_)
SmallTrailingZeros(n) == IF n % 2 = 1 THEN 0 ELSE 1 + SmallTrailingZeros(n \div 2)

\* the number of zero bits at the low end of a # 0
BTrailingZeros(a) ==
    LET i == CHOOSE k \in 1..Len(a) : a[k] # 0 /\ \A j \in 1..(k - 1) : a[j] = 0
    IN  (i - 1) * 15 + SmallTrailingZeros(a[i])

\* the largest of hi, hi - 1 and hi - 2 whose product with b is at most r
BDigitFrom(r, b, hi) ==
    IF BCmp(BMulSmall(b, hi), r) <= 0 THEN hi
    ELSE IF BCmp(BMulSmall(b, hi - 1), r) <= 0 THEN hi - 1
    ELSE hi - 2

\* the quotient digit of r by b, for r < b * Base and the top digit of b at
\* least Base / 2: at most two below the quotient of the two top digits
BDigit(r, b) ==
    IF BCmp(r, b) < 0 THEN 0
    ELSE BDigitFrom(r, b, Min(Base - 1,
             (Dig(r, Len(b) + 1) * Base + r[Len(b)]) \div b[Len(b)]))

\* the quotient digit d and the remainder of r by b
BStepBy(r, b, d) == [q |-> <<d>>, r |-> BSub(r, BMulSmall(b, d))]

BStep(r, b) == BStepBy(r, b, BDigit(r, b))

\* quotient digits hi .. lo, highest first, and remainder of the digits
\* hi .. lo of a, after the remainder r of the digits above, by b
RECURSIVE BLongDivR(_, _, _, _, _)
BLongDivR(a, b, lo, hi, r) ==
    IF lo > hi THEN [q |-> <<>>, r |-> r]
    ELSE IF lo = hi
    THEN BStep(BNorm(<<a[lo]>> \o r), b)
    ELSE LET mid == (lo + hi) \div 2
             H == BLongDivR(a, b, mid + 1, hi, r)
             L == BLongDivR(a, b, lo, mid, H.r)
         IN  [q |-> H.q \o L.q, r |-> L.r]

\* the quotient and the remainder from the digits d.q, highest first, and the
\* remainder d.r * 2^sh
BQuotRem(d, sh) == [q |-> BNorm(Rev(d.q)), r |-> BShr(d.r, sh)]

\* quotient and remainder of a by b # 0; a and b are shifted to bring the top
\* digit of b to at least Base / 2
BDivModShifted(a, b, sh) ==
    BQuotRem(BLongDivR(BShl(a, sh), BShl(b, sh), 1, Len(BShl(a, sh)), <<>>), sh)

\* the same from a division by one digit, with the remainder a number
BQuotRemSmall(d) == [q |-> BNorm(Rev(d.q)), r |-> BFromInt(d.r)]

BDivMod(a, b) ==
    IF Len(b) = 1 THEN BQuotRemSmall(BDivSmallR(a, b[1], 1, Len(a), 0))
    ELSE BDivModShifted(a, b, 15 - SmallBitLen(b[Len(b)]))

----------------------------------------------------------------------------
(* binary64 floats.  A float is <<kind, sign, m, e>>: kind "fin" is the    *)
(* value sign * m * 2^e with m odd, "zero" is +0 or -0, "inf" is +inf or   *)
(* -inf, "nan" is NaN.  Every operation rounds its exact result to the     *)
(* nearest float, ties to even, with gradual underflow and overflow to     *)
(* infinity, as the float64 operations of numpy do.                        *)

Zero == <<"zero", 1, <<>>, 0>>
NegZero == <<"zero", -1, <<>>, 0>>
NaN == <<"nan", 1, <<>>, 0>>
PInf == <<"inf", 1, <<>>, 0>>
NInf == <<"inf", -1, <<>>, 0>>

IsNaN(a) == a[1] = "nan"
IsInf(a) == a[1] = "inf"
IsZero(a) == a[1] = "zero"
IsFinite(a) == a[1] \in {"fin", "zero"}

\* the finite float s * k * 2^q with an odd significand: k has tz zero bits
\* at its low end
Normal(s, k, q, tz) == <<"fin", s, BShr(k, tz), q + tz>>

\* the float s * k * 2^q, for k of at most 53 bits and q >= -1074
Pack(s, k, q) ==
    IF k = <<>> THEN <<"zero", s, <<>>, 0>>
    ELSE IF BBitLen(k) + q > 1024 THEN <<"inf", s, <<>>, 0>>
    ELSE Normal(s, k, q, BTrailingZeros(k))

\* whether k0 is rounded up: cmp compares the bits that are cut off with
\* half a unit of k0
RoundsUp(k0, cmp, sticky) == cmp > 0 \/ (cmp = 0 /\ (sticky \/ BIsOdd(k0)))

\* m without its sh low bits k0 = floor(m / 2^sh), rounded to nearest, ties
\* to even
RoundCut(m, sh, k0, sticky) ==
    IF RoundsUp(k0, BCmp(BSub(m, BShl(k0, sh)), BShl(<<1>>, sh - 1)), sticky)
    THEN BAdd(k0, <<1>>)
    ELSE k0

\* s * m * 2^e rounded to a multiple of 2^q, q >= e
RoundTo(s, m, e, sticky, q) ==
    IF q = e THEN Pack(s, m, q)
    ELSE Pack(s, RoundCut(m, q - e, BShr(m, q - e), sticky), q)

\* the exponent of the last bit that a float with n bits from 2^e on keeps:
\* 53 bits, and none below 2^-1074
Quantum(e, n) == Max(e, Max(e + n - 53, -1074))

\* the float nearest to s * m * 2^e; sticky says that the exact value is
\* larger in magnitude than that, by less than 2^e (m has 55 bits or more
\* then)
Round(s, m, e, sticky) == RoundTo(s, m, e, sticky, Quantum(e, BBitLen(m)))

\* the float of the Python int i
Num(i) == Round(IF i < 0 THEN -1 ELSE 1, BFromInt(Abs(i)), 0, FALSE)

One == Num(1)

RNeg(a) == IF IsNaN(a) THEN a ELSE <<a[1], -a[2], a[3], a[4]>>

\* -1, 0 or 1 as |a| < |b|, |a| = |b| or |a| > |b|, for finite a and b
CmpMag(a, b) ==
    IF IsZero(a) THEN (IF IsZero(b) THEN 0 ELSE -1)
    ELSE IF IsZero(b) THEN 1
    ELSE IF a[4] + BBitLen(a[3]) < b[4] + BBitLen(b[3]) THEN -1
    ELSE IF a[4] + BBitLen(a[3]) > b[4] + BBitLen(b[3]) THEN 1
    ELSE BCmp(BShl(a[3], a[4] - Min(a[4], b[4])),
              BShl(b[3], b[4] - Min(a[4], b[4])))

\* -1, 0 or 1 as a < b, a = b or a > b, for a and b other than NaN
Cmp(a, b) ==
    IF IsInf(a) /\ IsInf(b) THEN (IF a[2] = b[2] THEN 0 ELSE a[2])
    ELSE IF IsInf(a) THEN a[2]
    ELSE IF IsInf(b) THEN -b[2]
    ELSE IF IsZero(a) /\ IsZero(b) THEN 0
    ELSE IF IsZero(a) THEN -b[2]
    ELSE IF IsZero(b) THEN a[2]
    ELSE IF a[2] # b[2] THEN a[2]
    ELSE a[2] * CmpMag(a, b)

\* the comparisons; every comparison with NaN is False
RLt(a, b) == ~IsNaN(a) /\ ~IsNaN(b) /\ Cmp(a, b) < 0
RLeq(a, b) == ~IsNaN(a) /\ ~IsNaN(b) /\ Cmp(a, b) <= 0
RGt(a, b) == RLt(b, a)
RGeq(a, b) == RLeq(b, a)
REq(a, b) == ~IsNaN(a) /\ ~IsNaN(b) /\ Cmp(a, b) = 0

\* a + t for a finite a # 0 and a t of sign s with 0 < |t| < |a| * 2^-59;
\* sh brings the significand of a to 55 bits
AddTinyAt(a, s, sh) ==
    Round(a[2],
          IF a[2] = s THEN BShl(a[3], sh) ELSE BSub(BShl(a[3], sh), <<1>>),
          a[4] - sh, TRUE)

AddTiny(a, s) == AddTinyAt(a, s, 55 - BBitLen(a[3]))

\* sa * ma * 2^e + sb * mb * 2^e
AddMag(sa, ma, sb, mb, e) ==
    IF sa # sb /\ ma = mb THEN Zero
    ELSE Round(IF sa = sb \/ BCmp(ma, mb) > 0 THEN sa ELSE sb,
               IF sa = sb THEN BAdd(ma, mb)
               ELSE IF BCmp(ma, mb) > 0 THEN BSub(ma, mb)
               ELSE BSub(mb, ma),
               e, FALSE)

\* a + b for finite a and b other than 0, with e the lesser exponent
AddAligned(a, b, e) ==
    AddMag(a[2], BShl(a[3], a[4] - e), b[2], BShl(b[3], b[4] - e), e)

RAdd(a, b) ==
    IF IsNaN(a) \/ IsNaN(b) THEN NaN
    ELSE IF IsInf(a) /\ IsInf(b) THEN (IF a[2] = b[2] THEN a ELSE NaN)
    ELSE IF IsInf(a) THEN a
    ELSE IF IsInf(b) THEN b
    ELSE IF IsZero(a) /\ IsZero(b) THEN (IF a[2] = b[2] THEN a ELSE Zero)
    ELSE IF IsZero(a) THEN b
    ELSE IF IsZero(b) THEN a
    ELSE IF a[4] + BBitLen(a[3]) - (b[4] + BBitLen(b[3])) >= 60 THEN AddTiny(a, b[2])
    ELSE IF b[4] + BBitLen(b[3]) - (a[4] + BBitLen(a[3])) >= 60 THEN AddTiny(b, a[2])
    ELSE AddAligned(a, b, Min(a[4], b[4]))

RSub(a, b) == RAdd(a, RNeg(b))

RMul(a, b) ==
    IF IsNaN(a) \/ IsNaN(b) THEN NaN
    ELSE IF (IsInf(a) /\ IsZero(b)) \/ (IsZero(a) /\ IsInf(b)) THEN NaN
    ELSE IF IsInf(a) \/ IsInf(b) THEN <<"inf", a[2] * b[2], <<>>, 0>>
    ELSE IF IsZero(a) \/ IsZero(b) THEN <<"zero", a[2] * b[2], <<>>, 0>>
    ELSE Round(a[2] * b[2], BMul(a[3], b[3]), a[4] + b[4], FALSE)

\* the float nearest to s * (d.q + d.r / q) * 2^e, for a remainder d.r of a
\* division by q and a quotient d.q of 55 bits or more
RoundDiv(s, d, e) == Round(s, d.q, e, d.r # <<>>)

\* the float nearest to s * (p / q) * 2^e, for p # 0 and q # 0; p is shifted
\* by k bits for a quotient of 55 bits or more
RoundQuotAt(s, p, q, e, k) == RoundDiv(s, BDivMod(BShl(p, k), q), e - k)

RoundQuot(s, p, q, e) ==
    RoundQuotAt(s, p, q, e, Max(0, 55 + BBitLen(q) - BBitLen(p)))

\* a / b; numpy divides by zero with a warning, not an exception
RDiv(a, b) ==
    IF IsNaN(a) \/ IsNaN(b) THEN NaN
    ELSE IF (IsInf(a) /\ IsInf(b)) \/ (IsZero(a) /\ IsZero(b)) THEN NaN
    ELSE IF IsInf(a) \/ IsZero(b) THEN <<"inf", a[2] * b[2], <<>>, 0>>
    ELSE IF IsInf(b) \/ IsZero(a) THEN <<"zero", a[2] * b[2], <<>>, 0>>
    ELSE IF b[3] = <<1>> THEN Round(a[2] * b[2], a[3], a[4] - b[4], FALSE)
    ELSE RoundQuot(a[2] * b[2], a[3], b[3], a[4] - b[4])

\* the float that the decimal literal of n / d denotes
Lit(n, d) == RDiv(Num(n), Num(d))

----------------------------------------------------------------------------
(* Integers of any size <<s, m>>: the value s * m with m a natural number  *)
(* and s = 1 for 0.  The exact part of lstsq works on them.                *)

ZZero == <<1, <<>>>>

ZNeg(a) == IF a[2] = <<>> THEN a ELSE <<-a[1], a[2]>>

ZAdd(a, b) ==
    IF a[1] = b[1] THEN <<a[1], BAdd(a[2], b[2])>>
    ELSE IF BCmp(a[2], b[2]) = 0 THEN ZZero
    ELSE IF BCmp(a[2], b[2]) > 0 THEN <<a[1], BSub(a[2], b[2])>>
    ELSE <<b[1], BSub(b[2], a[2])>>

ZSub(a, b) == ZAdd(a, ZNeg(b))

ZMul(a, b) ==
    IF a[2] = <<>> \/ b[2] = <<>> THEN ZZero
    ELSE <<a[1] * b[1], BMul(a[2], b[2])>>

\* a / b for b # 0 a divisor of a
ZDiv(a, b) ==
    IF a[2] = <<>> THEN ZZero ELSE <<a[1] * b[1], BDivMod(a[2], b[2]).q>>

\* the least exponent of the floats of a that are not 0, 0 if all are 0
MinExp(a) ==
    LET nz == {i \in 1..Len(a) : ~IsZero(a[i])}
    IN  IF nz = {} THEN 0
        ELSE a[CHOOSE i \in nz : \A j \in nz : a[i][4] <= a[j][4]][4]

\* the integer x / 2^e, for a finite float x that is a multiple of 2^e
ZOfFloat(x, e) ==
    IF IsZero(x) THEN ZZero ELSE <<x[2], BShl(x[3], x[4] - e)>>

----------------------------------------------------------------------------
(* numpy arrays as sequences, with broadcasting of length-1 arrays *)

None == <<>>

\* np.atleast_1d(np.asarray(v, dtype=np.float_)) of a Python number: the
\* array of shape (1,) that holds it
AtLeast1d(v) == <<v>>

\* the array with the elements f[1], ..., f[n], evaluated once
Array(f) == <<>> \o f

BLen(a, b) == IF Len(a) >= Len(b) THEN Len(a) ELSE Len(b)

At(a, i) == IF Len(a) = 1 THEN a[1] ELSE a[i]

AAdd(a, b) == Array([i \in 1..BLen(a, b) |-> RAdd(At(a, i), At(b, i))])
ASub(a, b) == Array([i \in 1..BLen(a, b) |-> RSub(At(a, i), At(b, i))])
AMul(a, b) == Array([i \in 1..BLen(a, b) |-> RMul(At(a, i), At(b, i))])
ADiv(a, b) == Array([i \in 1..BLen(a, b) |-> RDiv(At(a, i), At(b, i))])
ANeg(a) == Array([i \in 1..Len(a) |-> RNeg(a[i])])

\* np.any(a == 0) and np.any(a < 0); None == 0 is False and None < 0 raises
\* TypeError
AnyZero(a) == \E i \in 1..Len(a) : REq(a[i], Zero)
AnyNeg(a) ==
    IF a = None THEN "TypeError"
    ELSE IF \E i \in 1..Len(a) : RLt(a[i], Zero) THEN "True"
    ELSE "False"

----------------------------------------------------------------------------
(* BacklashModel *)

\* an optional argument: None, or Some(v) for the Python number v
Some(v) == <<v>>
Val(a) == a[1]

\* __init__, lines 35-39: every field starts as None
Fresh == [m_lo |-> None, m_up |-> None, c_lo |-> None, c_up |-> None, x_prev |-> None]

\* ResetAssign with the state assigned unconditionally (no "is not None")
ResetAssignClearsState(s, a) ==
    [m_lo   |-> IF a.m_lo # None THEN AtLeast1d(Val(a.m_lo)) ELSE s.m_lo,
     m_up   |-> IF a.m_up # None THEN AtLeast1d(Val(a.m_up)) ELSE s.m_up,
     c_lo   |-> IF a.c_lo # None THEN AtLeast1d(Val(a.c_lo)) ELSE s.c_lo,
     c_up   |-> IF a.c_up # None THEN AtLeast1d(Val(a.c_up)) ELSE s.c_up,
     x_prev |-> IF a.x_init # None THEN AtLeast1d(Val(a.x_init)) ELSE None]

\* reset, lines 87-97: the "optionally set" part
ResetAssign(s, a) ==
    [m_lo   |-> IF a.m_lo # None THEN AtLeast1d(Val(a.m_lo)) ELSE s.m_lo,
     m_up   |-> IF a.m_up # None THEN AtLeast1d(Val(a.m_up)) ELSE s.m_up,
     c_lo   |-> IF a.c_lo # None THEN AtLeast1d(Val(a.c_lo)) ELSE s.c_lo,
     c_up   |-> IF a.c_up # None THEN AtLeast1d(Val(a.c_up)) ELSE s.c_up,
     x_prev |-> IF a.x_init # None THEN AtLeast1d(Val(a.x_init)) ELSE s.x_prev]

\* ResetCheck without the last check
ResetCheckNoCUp(s) ==
    IF AnyZero(s.m_lo) THEN "m_lo must not be zero!"
    ELSE IF AnyZero(s.m_up) THEN "m_up must not be zero!"
    ELSE IF AnyNeg(s.c_lo) = "TypeError" THEN "TypeError"
    ELSE IF AnyNeg(s.c_lo) = "True" THEN "c_lo must be non-negative!"
    ELSE "ok"

\* reset, lines 99-107: the "check the values" part, the message of the
\* ValueError it raises, "TypeError" for an offset that is None, or "ok"
ResetCheck(s) ==
    IF AnyZero(s.m_lo) THEN "m_lo must not be zero!"
    ELSE IF AnyZero(s.m_up) THEN "m_up must not be zero!"
    ELSE IF AnyNeg(s.c_lo) = "TypeError" THEN "TypeError"
    ELSE IF AnyNeg(s.c_lo) = "True" THEN "c_lo must be non-negative!"
    ELSE IF AnyNeg(s.c_up) = "TypeError" THEN "TypeError"
    ELSE IF AnyNeg(s.c_up) = "True" THEN "c_up must be non-negative!"
    ELSE "ok"

\* the properties z_lo and z_up
z_lo(s) == ASub(ADiv(s.x_prev, s.m_lo), s.c_lo)
z_up(s) == AAdd(ADiv(s.x_prev, s.m_up), s.c_up)

\* u <= a and u >= a for a scalar u, elementwise
ALeq(u, a) == Array([i \in 1..Len(a) |-> RLeq(u, a[i])])
AGeq(u, a) == Array([i \in 1..Len(a) |-> RGeq(u, a[i])])

\* the truth value of a one-element boolean array
Truth(b) == b[1]

\* CallResult with u < z_lo for u <= z_lo
CallResultStrict(s, u) ==
    IF s.x_prev = None
    THEN [self |-> s, ret |-> None, br |-> "none", err |-> "TypeError"]
    ELSE IF RLt(u, z_lo(s)[1])
    THEN LET x_curr == AMul(s.m_lo, AAdd(<<u>>, s.c_lo))
         IN  [self |-> [s EXCEPT !.x_prev = x_curr], ret |-> x_curr,
              br |-> "lo", err |-> "ok"]
    ELSE IF Truth(AGeq(u, z_up(s)))
    THEN LET x_curr == AMul(s.m_up, ASub(<<u>>, s.c_up))
         IN  [self |-> [s EXCEPT !.x_prev = x_curr], ret |-> x_curr,
              br |-> "up", err |-> "ok"]
    ELSE [self |-> s, ret |-> s.x_prev, br |-> "hold", err |-> "ok"]

\* CallResult with the state overwritten by the input in the backlash zone
CallResultNoHold(s, u) ==
    IF s.x_prev = None
    THEN [self |-> s, ret |-> None, br |-> "none", err |-> "TypeError"]
    ELSE IF Truth(ALeq(u, z_lo(s)))
    THEN LET x_curr == AMul(s.m_lo, AAdd(<<u>>, s.c_lo))
         IN  [self |-> [s EXCEPT !.x_prev = x_curr], ret |-> x_curr,
              br |-> "lo", err |-> "ok"]
    ELSE IF Truth(AGeq(u, z_up(s)))
    THEN LET x_curr == AMul(s.m_up, ASub(<<u>>, s.c_up))
         IN  [self |-> [s EXCEPT !.x_prev = x_curr], ret |-> x_curr,
              br |-> "up", err |-> "ok"]
    ELSE [self |-> [s EXCEPT !.x_prev = <<u>>], ret |-> <<u>>, br |-> "hold",
          err |-> "ok"]

\* CallResult with the lower branch returning the state it replaces
CallResultStale(s, u) ==
    IF s.x_prev = None
    THEN [self |-> s, ret |-> None, br |-> "none", err |-> "TypeError"]
    ELSE IF Truth(ALeq(u, z_lo(s)))
    THEN LET x_curr == AMul(s.m_lo, AAdd(<<u>>, s.c_lo))
         IN  [self |-> [s EXCEPT !.x_prev = x_curr], ret |-> s.x_prev,
              br |-> "lo", err |-> "ok"]
    ELSE IF Truth(AGeq(u, z_up(s)))
    THEN LET x_curr == AMul(s.m_up, ASub(<<u>>, s.c_up))
         IN  [self |-> [s EXCEPT !.x_prev = x_curr], ret |-> x_curr,
              br |-> "up", err |-> "ok"]
    ELSE [self |-> s, ret |-> s.x_prev, br |-> "hold", err |-> "ok"]

\* __call__ on the float u: the fields after the call, what it returns, the
\* branch it takes and what it raises (None / m_lo is a TypeError)
CallResult(s, u) ==
    IF s.x_prev = None
    THEN [self |-> s, ret |-> None, br |-> "none", err |-> "TypeError"]
    ELSE IF Truth(ALeq(u, z_lo(s)))
    THEN LET x_curr == AMul(s.m_lo, AAdd(<<u>>, s.c_lo))
         IN  [self |-> [s EXCEPT !.x_prev = x_curr], ret |-> x_curr,
              br |-> "lo", err |-> "ok"]
    ELSE IF Truth(AGeq(u, z_up(s)))
    THEN LET x_curr == AMul(s.m_up, ASub(<<u>>, s.c_up))
         IN  [self |-> [s EXCEPT !.x_prev = x_curr], ret |-> x_curr,
              br |-> "up", err |-> "ok"]
    ELSE [self |-> s, ret |-> s.x_prev, br |-> "hold", err |-> "ok"]

----------------------------------------------------------------------------
(* np.linalg.lstsq: the minimum-norm least-squares solution, computed      *)
(* exactly and rounded to floats.  LAPACK computes it in floats, by a      *)
(* singular value decomposition; its rounding errors are not modelled.     *)

\* the sum of a[lo] .. a[hi]
RECURSIVE ZSum(_, _, _)
ZSum(a, lo, hi) ==
    IF lo > hi THEN ZZero
    ELSE IF lo = hi THEN a[lo]
    ELSE ZAdd(ZSum(a, lo, (lo + hi) \div 2), ZSum(a, (lo + hi) \div 2 + 1, hi))

Dot(a, b) == ZSum(Array([i \in 1..Len(a) |-> ZMul(a[i], b[i])]), 1, Len(a))

Column(M, j) == Array([i \in 1..Len(M) |-> M[i][j]])

\* fraction-free Gauss-Jordan elimination of the augmented integer matrix M
\* (n columns and the right-hand side) from row r and column c on; piv lists
\* the pivot column of each of the rows 1 .. r-1 and d is the last pivot:
\* every pivot row holds d in its pivot column, and each step divides by the
\* pivot before it, which leaves integers
RECURSIVE Eliminate(_, _, _, _, _, _)
Eliminate(M, n, r, c, piv, d) ==
    IF c > n \/ r > Len(M) THEN [M |-> M, piv |-> piv, d |-> d]
    ELSE LET cand == {p \in r..Len(M) : M[p][c] # ZZero}
         IN  IF cand = {} THEN Eliminate(M, n, r, c + 1, piv, d)
             ELSE LET p == CHOOSE q \in cand : \A q2 \in cand : q <= q2
                      S == [M EXCEPT ![r] = M[p], ![p] = M[r]]
                      E == Array([i \in 1..Len(S) |->
                              IF i = r THEN S[r]
                              ELSE Array([j \in 1..(n + 1) |->
                                      ZDiv(ZSub(ZMul(S[r][c], S[i][j]),
                                                ZMul(S[i][c], S[r][j])), d)])])
                  IN  Eliminate(E, n, r + 1, c + 1, Append(piv, c), S[r][c])

\* a solution g.w / g.d of the consistent system that g is the elimination
\* of (free unknowns are 0)
Solution(g, n) ==
    [w |-> Array([c \in 1..n |->
                   IF \E r \in 1..Len(g.piv) : g.piv[r] = c
                   THEN g.M[CHOOSE r \in 1..Len(g.piv) : g.piv[r] = c][n + 1]
                   ELSE ZZero]),
     d |-> g.d]

Solve(A, b) ==
    Solution(Eliminate(Array([i \in 1..Len(A) |-> Append(A[i], b[i])]),
                       Len(A), 1, 1, <<>>, <<1, <<1>>>>), Len(A))

\* the matrix P^T P and the vector P^T y
Gram(P) ==
    Array([j \in 1..Len(P[1]) |->
        Array([k \in 1..Len(P[1]) |-> Dot(Column(P, j), Column(P, k))])])

TMul(P, y) == Array([j \in 1..Len(P[1]) |-> Dot(Column(P, j), y)])

\* A s.w / s.d
Apply(A, s) == [t |-> Array([j \in 1..Len(A) |-> Dot(A[j], s.w)]), d |-> s.d]

\* with A = P^T P and b = P^T y, the minimum-norm minimiser of |P t - y| is
\* A w for any w with A A w = b
MinNormOf(A, b) == Apply(A, Solve(Gram(A), b))

MinNorm(P, y) == MinNormOf(Gram(P), TMul(P, y))

\* the elements of the matrix phi in one array
Flat(phi) ==
    Array([k \in 1..(Len(phi) * Len(phi[1])) |->
        phi[((k - 1) \div Len(phi[1])) + 1][((k - 1) % Len(phi[1])) + 1]])

ZArray(a, e) == Array([i \in 1..Len(a) |-> ZOfFloat(a[i], e)])

ZMatrix(phi, e) == Array([i \in 1..Len(phi) |-> ZArray(phi[i], e)])

\* the floats nearest to r.t / r.d * 2^e
Unscale(r, e) ==
    Array([j \in 1..Len(r.t) |->
        IF r.t[j][2] = <<>> THEN Zero
        ELSE RoundQuot(r.t[j][1] * r.d[1], r.t[j][2], r.d[2], e)])

\* lstsq(phi, y)[0] for finite phi and y; phi and y are scaled to integers by
\* powers of two, which the result is scaled back by
Lstsq(phi, y) ==
    Unscale(MinNorm(ZMatrix(phi, MinExp(Flat(phi))), ZArray(y, MinExp(y))),
            MinExp(y) - MinExp(Flat(phi)))

AllFinite(a) == \A i \in 1..Len(a) : IsFinite(a[i])

\* theta with either sign for each of its zeros
ZeroSigns(theta) ==
    {Array([i \in 1..Len(theta) |-> IF i \in S THEN NegZero ELSE theta[i]]) :
        S \in SUBSET {i \in 1..Len(theta) : IsZero(theta[i])}}

----------------------------------------------------------------------------
(* fit *)

\* h with s < 0 for s <= 0
hStrict(s) ==
    Array([i \in 1..Len(s) |->
        IF RGeq(s[i], Zero) THEN Zero
        ELSE IF RLt(s[i], Zero) THEN One
        ELSE s[i]])

\* the step function h: NaN is neither > 0 nor <= 0 and stays
h(s) ==
    Array([i \in 1..Len(s) |->
        IF RGt(s[i], Zero) THEN Zero
        ELSE IF RLeq(s[i], Zero) THEN One
        ELSE s[i]])

f_1(s, u, x_prev) ==
    h(ADiv(ASub(AAdd(AMul(s.m_lo, u), AMul(s.m_lo, s.c_lo)), x_prev), s.m_lo))

f_2(s, u, x_prev) ==
    h(ADiv(AAdd(ASub(x_prev, AMul(s.m_up, u)), AMul(s.m_up, s.c_up)), s.m_up))

\* the feature matrix of one epoch, one row per sample (lines 156-158)
Phi(s, u, x_prev) ==
    LET f1 == f_1(s, u, x_prev)
        f2 == f_2(s, u, x_prev)
    IN  Array([i \in 1..Len(u) |->
            <<RMul(u[i], f1[i]), f1[i], RMul(u[i], f2[i]), RNeg(f2[i])>>])

\* the targets of one epoch (line 161)
Targets(s, u, x, x_prev) ==
    LET f1 == f_1(s, u, x_prev)
        f2 == f_2(s, u, x_prev)
    IN  Array([i \in 1..Len(u) |->
            RSub(x[i], RMul(RMul(x_prev[i], RSub(One, f1[i])), RSub(One, f2[i])))])

\* the parameters extracted from theta (lines 168-169)
Extract(s, theta) ==
    [s EXCEPT !.m_lo = <<theta[1]>>,
              !.m_up = <<theta[3]>>,
              !.c_lo = <<RDiv(theta[2], theta[1])>>,
              !.c_up = <<RDiv(theta[4], theta[3])>>]

\* what np.linalg.lstsq(phi, targets) does: it returns theta, or raises.  On
\* a NaN or an infinity in its input LAPACK's SVD either fails to converge,
\* and lstsq raises LinAlgError, or returns NaN: that depends on the LAPACK
\* build, and both outcomes are kept.
LstsqOutcomes(phi, targets) ==
    IF (\A i \in 1..Len(phi) : AllFinite(phi[i])) /\ AllFinite(targets)
    THEN {[theta |-> th, err |-> "ok"] : th \in ZeroSigns(Lstsq(phi, targets))}
    ELSE {[theta |-> <<NaN, NaN, NaN, NaN>>, err |-> "ok"],
          [theta |-> <<NaN, NaN, NaN, NaN>>, err |-> "LinAlgError"]}

\* one epoch (lines 155-169): the possible outcomes
Epoch(s, u, x, x_prev) ==
    {IF o.err = "ok" THEN [self |-> Extract(s, o.theta), err |-> "ok"]
                     ELSE [self |-> s, err |-> o.err] :
        o \in LstsqOutcomes(Phi(s, u, x_prev), Targets(s, u, x, x_prev))}

\* the loop of k epochs (line 154): the possible outcomes
RECURSIVE Epochs(_, _, _, _, _)
Epochs(s, u, x, x_prev, k) ==
    IF k = 0 THEN {[self |-> s, err |-> "ok"]}
    ELSE UNION {IF r.err # "ok" THEN {r} ELSE Epochs(r.self, u, x, x_prev, k - 1) :
                   r \in Epoch(s, u, x, x_prev)}

\* SeedArgs without x_init
SeedArgsKeepState(x_prev) ==
    [m_lo |-> Some(Num(1)), m_up |-> Some(Num(1)),
     c_lo |-> Some(Lit(1, 100)), c_up |-> Some(Lit(1, 100)),
     x_init |-> None]

\* the arguments of the reset that fit starts with (line 152)
SeedArgs(x_prev) ==
    [m_lo |-> Some(Num(1)), m_up |-> Some(Num(1)),
     c_lo |-> Some(Lit(1, 100)), c_up |-> Some(Lit(1, 100)),
     x_init |-> Some(x_prev[1])]

\* FitResults with the shapes verified after the initial reset
FitResultsLateCheck(s, u, x, x_prev, num_epoch) ==
    LET s0 == ResetAssign(s, SeedArgs(x_prev \o <<Zero>>))
    IN  IF ~(Len(u) = Len(x) /\ Len(x) = Len(x_prev))
        THEN {[self |-> s0, err |-> "shapes"]}
        ELSE IF ResetCheck(s0) # "ok" THEN {[self |-> s0, err |-> ResetCheck(s0)]}
        ELSE Epochs(s0, u, x, x_prev, num_epoch)

\* fit(u, x, x_prev, num_epoch) on arrays of shape [N, 1], each a sequence of
\* N floats: the possible outcomes, each the fields after the call and what
\* it raises
FitResults(s, u, x, x_prev, num_epoch) ==
    IF ~(Len(u) = Len(x) /\ Len(x) = Len(x_prev))
    THEN {[self |-> s, err |-> "shapes"]}
    ELSE LET s0 == ResetAssign(s, SeedArgs(x_prev))
         IN  IF ResetCheck(s0) # "ok" THEN {[self |-> s0, err |-> ResetCheck(s0)]}
             ELSE Epochs(s0, u, x, x_prev, num_epoch)

----------------------------------------------------------------------------
(* The inputs *)

\* the slopes and offsets given to the constructor and to reset: valid ones,
\* a zero slope and a negative offset
Slopes == {-1, 0, 1, 2}
Offsets == {-1, 0, 1}
XInits == {0, 1}

SlopeArgs == {Some(Num(v)) : v \in Slopes}
OffsetArgs == {Some(Num(v)) : v \in Offsets}
XInitArgs == {Some(Num(v)) : v \in XInits}
Inputs == {Num(v) : v \in -MaxU..MaxU}

\* the constructor's parameters are mandatory, x_init is optional
CtorArgs ==
    [m_lo : SlopeArgs, m_up : SlopeArgs, c_lo : OffsetArgs, c_up : OffsetArgs,
     x_init : XInitArgs \cup {None}]

ResetArgs ==
    [m_lo : SlopeArgs \cup {None}, m_up : SlopeArgs \cup {None},
     c_lo : OffsetArgs \cup {None}, c_up : OffsetArgs \cup {None},
     x_init : XInitArgs \cup {None}]

\* the resets that give no parameter
StateResetArgs == {a \in ResetArgs :
    a.m_lo = None /\ a.m_up = None /\ a.c_lo = None /\ a.c_up = None}

\* the samples <<u, x, x_prev>> of the data sets given to fit: with the seed
\* parameters the first lies on the lower boundary (u < x_prev) and the
\* second on the upper (u > x_prev)
Samples == {<<1, 1, 2>>, <<-1, -1, -2>>}

DataSets == UNION {[1..n -> Samples] : n \in 1..MaxSamples}

\* the array of shape [N, 1] of the k-th components of the samples of d,
\* without its first row when cut says so (as test_all cuts u)
DataArray(d, k, cut) ==
    LET a == Array([i \in 1..Len(d) |-> Num(d[i][k])])
    IN  IF cut THEN Tail(a) ELSE a

Cuts == {"none", "u", "x", "x_prev"}

\* the parameters the constructor is given where fit is explored: valid
\* slopes and a valid lower offset, any c_up and x_init
FitCtorArgs == {a \in CtorArgs :
    a.m_lo = Some(Num(2)) /\ a.m_up = Some(Num(1)) /\ a.c_lo = Some(Num(1))}

----------------------------------------------------------------------------
(* The state machine *)

NoArg == [u |-> Zero, same_shape |-> FALSE, x0 |-> None, k |-> 0]

Init ==
    /\ self = Fresh
    /\ obj = "none"
    /\ op = "none"
    /\ arg = NoArg
    /\ ret = None
    /\ err = "ok"
    /\ br = "none"

\* BacklashModel(m_lo, m_up, c_lo, c_up, x_init); an instance whose
\* constructor raised is never bound to a name
Construct(a) ==
    /\ obj # "live"
    /\ self' = ResetAssign(Fresh, a)
    /\ err' = ResetCheck(self')
    /\ obj' = IF err' = "ok" THEN "live" ELSE "dead"
    /\ op' = "ctor"
    /\ arg' = NoArg
    /\ ret' = None
    /\ br' = "none"

\* bl_model.reset(...); the fields stay as assigned when the check raises
Reset(a) ==
    /\ obj = "live"
    /\ self' = ResetAssign(self, a)
    /\ err' = ResetCheck(self')
    /\ op' = "reset"
    /\ arg' = NoArg
    /\ ret' = None
    /\ br' = "none"
    /\ UNCHANGED obj

\* bl_model(u)
Call(u) ==
    /\ obj = "live"
    /\ LET r == CallResult(self, u)
       IN  /\ self' = r.self
           /\ ret' = r.ret
           /\ err' = r.err
           /\ br' = r.br
    /\ op' = "call"
    /\ arg' = [NoArg EXCEPT !.u = u]
    /\ UNCHANGED obj

\* bl_model.fit(u, x, x_prev, num_epoch)
Fit(u, x, x_prev, num_epoch) ==
    /\ obj = "live"
    /\ \E r \in FitResults(self, u, x, x_prev, num_epoch) :
           /\ self' = r.self
           /\ err' = r.err
    /\ op' = "fit"
    /\ arg' = IF Len(u) = Len(x) /\ Len(x) = Len(x_prev)
              THEN [NoArg EXCEPT !.same_shape = TRUE, !.x0 = <<x_prev[1]>>,
                                 !.k = num_epoch]
              ELSE NoArg
    /\ ret' = None
    /\ br' = "none"
    /\ UNCHANGED obj

DoConstruct == \E a \in CtorArgs : Construct(a)
DoConstructFit == \E a \in FitCtorArgs : Construct(a)
DoReset == \E a \in ResetArgs : Reset(a)
DoStateReset == \E a \in StateResetArgs : Reset(a)
DoCall == \E u \in Inputs : Call(u)
DoFit ==
    \E d \in DataSets, cut \in Cuts, k \in 0..MaxEpoch :
        Fit(DataArray(d, 1, cut = "u"), DataArray(d, 2, cut = "x"),
            DataArray(d, 3, cut = "x_prev"), k)

\* construction, reset and __call__ in any order
Next == DoConstruct \/ DoReset \/ DoCall

Spec == Init /\ [][Next]_vars

\* construction, fit, __call__ and the resets of the state in any order
NextFit == DoConstructFit \/ DoStateReset \/ DoCall \/ DoFit

SpecFit == Init /\ [][NextFit]_vars

----------------------------------------------------------------------------
(* The claims *)

\* the parameters s holds are valid: no slope is zero, no offset is negative
ValidParams(s) ==
    /\ \A i \in 1..Len(s.m_lo) : ~REq(s.m_lo[i], Zero)
    /\ \A i \in 1..Len(s.m_up) : ~REq(s.m_up[i], Zero)
    /\ \A i \in 1..Len(s.c_lo) : RGeq(s.c_lo[i], Zero)
    /\ \A i \in 1..Len(s.c_up) : RGeq(s.c_up[i], Zero)

ValidationErrors ==
    {"m_lo must not be zero!", "m_up must not be zero!",
     "c_lo must be non-negative!", "c_up must be non-negative!"}

\* this step is a __call__ on an instance with valid parameters and a state
CallOnValid ==
    obj = "live" /\ op' = "call" /\ ValidParams(self) /\ self.x_prev # None

\* C1: with valid parameters, __call__(u) compares u with z_lo = x_prev / m_lo
\* - c_lo and z_up = x_prev / m_up + c_up of the state before the call: for
\* u <= z_lo it returns and stores m_lo * (u + c_lo), else for u >= z_up it
\* returns and stores m_up * (u - c_up), else it returns the stored state and
\* leaves it.
C1_StepRule ==
    [][CallOnValid =>
        LET u == arg'.u
            zlo == RSub(RDiv(self.x_prev[1], self.m_lo[1]), self.c_lo[1])
            zup == RAdd(RDiv(self.x_prev[1], self.m_up[1]), self.c_up[1])
            lo == RMul(self.m_lo[1], RAdd(u, self.c_lo[1]))
            up == RMul(self.m_up[1], RSub(u, self.c_up[1]))
        IN  /\ err' = "ok"
            /\ IF RLeq(u, zlo) THEN ret' = <<lo>> /\ self'.x_prev = <<lo>>
               ELSE IF RGeq(u, zup) THEN ret' = <<up>> /\ self'.x_prev = <<up>>
               ELSE ret' = self.x_prev /\ self'.x_prev = self.x_prev]_vars

\* a __call__ has taken the upper branch with valid parameters and stored
\* what it returned
C1_Witness ==
    /\ obj = "live" /\ op = "call" /\ err = "ok" /\ br = "up"
    /\ ValidParams(self)
    /\ self.x_prev = ret
    /\ ret = <<RMul(self.m_up[1], RSub(arg.u, self.c_up[1]))>>

\* C2 (as claimed): the parameters of an accessible instance are always
\* valid: m_lo # 0, m_up # 0, c_lo >= 0 and c_up >= 0.
C2_ParamsAlwaysValid == obj = "live" => ValidParams(self)

\* a slope s holds is zero or an offset it holds is negative
InvalidParams(s) ==
    \/ \E i \in 1..Len(s.m_lo) : REq(s.m_lo[i], Zero)
    \/ \E i \in 1..Len(s.m_up) : REq(s.m_up[i], Zero)
    \/ \E i \in 1..Len(s.c_lo) : RLt(s.c_lo[i], Zero)
    \/ \E i \in 1..Len(s.c_up) : RLt(s.c_up[i], Zero)

\* C3: reset, and so the constructor, raises the validation error exactly
\* when, after the given arguments are merged into the fields, a slope is
\* zero or an offset is negative, whichever field that is.
C3_ResetValidates ==
    [][(op' \in {"reset", "ctor"}) =>
        /\ err' \in ValidationErrors \cup {"ok"}
        /\ (err' \in ValidationErrors) <=> InvalidParams(self')]_vars

\* a reset has raised on a live instance
C3_Witness ==
    obj = "live" /\ op = "reset" /\ err \in ValidationErrors /\ InvalidParams(self)

\* C4: for every choice of the five arguments, reset leaves each field whose
\* argument is None as it was and sets each other field to the array that
\* holds the argument.
C4_ResetFrame ==
    obj = "live" =>
        \A a \in ResetArgs :
            LET t == ResetAssign(self, a)
            IN  /\ t.m_lo = IF a.m_lo = None THEN self.m_lo ELSE <<a.m_lo[1]>>
                /\ t.m_up = IF a.m_up = None THEN self.m_up ELSE <<a.m_up[1]>>
                /\ t.c_lo = IF a.c_lo = None THEN self.c_lo ELSE <<a.c_lo[1]>>
                /\ t.c_up = IF a.c_up = None THEN self.c_up ELSE <<a.c_up[1]>>
                /\ t.x_prev = IF a.x_init = None THEN self.x_prev ELSE <<a.x_init[1]>>

\* after a reset, a state from which a reset with x_init alone changes the
\* state and one with parameters alone changes a parameter
C4_Witness ==
    /\ obj = "live" /\ op = "reset" /\ err = "ok" /\ self.x_prev # None
    /\ \E a \in ResetArgs :
           /\ a.x_init # None /\ a.m_lo = None /\ a.m_up = None
           /\ a.c_lo = None /\ a.c_up = None
           /\ ResetAssign(self, a).x_prev # self.x_prev
    /\ \E a \in ResetArgs :
           /\ a.x_init = None /\ a.m_lo # None
           /\ ResetAssign(self, a).m_lo # self.m_lo

\* C5: fit with u, x and x_prev of shapes that are not all equal raises the
\* shape error and leaves the four parameters and the state as they were;
\* with equal shapes it does not raise it.
C5_ShapeMismatch ==
    [][(obj = "live" /\ op' = "fit") =>
        IF arg'.same_shape THEN err' # "shapes"
        ELSE err' = "shapes" /\ self' = self]_vars

\* a fit has raised the shape error on an instance that an earlier fit trained
C5_Witness ==
    /\ obj = "live" /\ op = "fit" /\ err = "shapes"
    /\ self.m_lo = <<Lit(1, 2)>> /\ self.c_lo = <<One>>

\* C6: a __call__ whose input lies strictly between z_lo and z_up of the
\* current state returns the stored state and changes neither it nor z_lo
\* nor z_up; after another __call__ it returns what that one returned.
C6_DeadZoneLatch ==
    [][(/\ obj = "live" /\ op' = "call" /\ self.x_prev # None
        /\ RLt(z_lo(self)[1], arg'.u) /\ RLt(arg'.u, z_up(self)[1])) =>
        /\ err' = "ok"
        /\ ret' = self.x_prev
        /\ self' = self
        /\ z_lo(self') = z_lo(self)
        /\ z_up(self') = z_up(self)
        /\ (op = "call" /\ err = "ok") => ret' = ret]_vars

\* a __call__ has held the state, its input strictly inside the backlash zone
C6_Witness ==
    /\ obj = "live" /\ op = "call" /\ err = "ok" /\ br = "hold"
    /\ RLt(z_lo(self)[1], arg.u) /\ RLt(arg.u, z_up(self)[1])
    /\ ret = self.x_prev

\* C8: a fit with equal shapes leaves x_prev[0] as the state, and with
\* num_epoch = 0 it returns with the seed parameters m_lo = m_up = 1 and
\* c_lo = c_up = 0.01.
C8_FitSeeds ==
    [][(obj = "live" /\ op' = "fit" /\ arg'.same_shape) =>
        /\ self'.x_prev = arg'.x0
        /\ arg'.k = 0 =>
            /\ err' = "ok"
            /\ self'.m_lo = <<One>> /\ self'.m_up = <<One>>
            /\ self'.c_lo = <<Lit(1, 100)>> /\ self'.c_up = <<Lit(1, 100)>>]_vars

\* a fit of at least one epoch has returned with trained parameters and
\* x_prev[0] as the state
C8_Witness ==
    /\ obj = "live" /\ op = "fit" /\ err = "ok" /\ arg.same_shape /\ arg.k > 0
    /\ self.x_prev = arg.x0
    /\ self.m_lo # <<One>>

\* the features of the input u of this step for the state before it
F1 == f_1(self, <<arg'.u>>, self.x_prev)[1]
F2 == f_2(self, <<arg'.u>>, self.x_prev)[1]

\* C9 (as claimed): with valid parameters f_1(u, x_prev) = 1 exactly when
\* __call__(u) takes the lower branch, f_2(u, x_prev) = 1 exactly when it
\* takes the upper branch, and both are 0 exactly when it holds the state.
C9_FeaturesMatchBranch ==
    [][CallOnValid =>
        /\ F1 = One <=> br' = "lo"
        /\ F2 = One <=> br' = "up"
        /\ (F1 = Zero /\ F2 = Zero) <=> br' = "hold"]_vars

\* C9 (amended): f_1 = 1 exactly when __call__(u) takes the lower branch,
\* both are 0 exactly when it holds the state, and f_2 = 1 exactly when
\* u >= z_up: when it takes the upper branch, or the lower one with
\* u >= z_up as well.
C9_FeaturesAmended ==
    [][CallOnValid =>
        /\ F1 \in {Zero, One} /\ F2 \in {Zero, One}
        /\ F1 = One <=> br' = "lo"
        /\ F2 = One <=> (br' = "up" \/ (br' = "lo" /\ RGeq(arg'.u, z_up(self)[1])))
        /\ (F1 = Zero /\ F2 = Zero) <=> br' = "hold"]_vars

\* a __call__ with valid parameters has left a state for which both features
\* of its input are 1
C9_Witness ==
    /\ obj = "live" /\ op = "call" /\ err = "ok" /\ ValidParams(self)
    /\ f_1(self, <<arg.u>>, self.x_prev) = <<One>>
    /\ f_2(self, <<arg.u>>, self.x_prev) = <<One>>

\* this step is a second __call__ in a row with the same input, the
\* parameters valid
SecondCall ==
    /\ obj = "live" /\ op = "call" /\ err = "ok"
    /\ op' = "call" /\ arg'.u = arg.u
    /\ ValidParams(self)

\* C10 (as claimed): with valid parameters, a second __call__ in a row with
\* the same input returns what the first returned and leaves the state.
C10_ConstantInputHolds ==
    [][SecondCall => (ret' = ret /\ self' = self)]_vars

\* C10 (amended): so it is unless the second __call__ takes the boundary
\* branch the first did not take: after the upper branch, unless the input
\* is <= z_lo of the state it stored; after the lower branch, unless the
\* input is > z_lo and >= z_up of the state it stored; always after a hold.
C10_ConstantInputAmended ==
    [][(/\ SecondCall
        /\ ~(br = "up" /\ RLeq(arg.u, z_lo(self)[1]))
        /\ ~(/\ br = "lo" /\ ~RLeq(arg.u, z_lo(self)[1])
             /\ RGeq(arg.u, z_up(self)[1]))) =>
        (ret' = ret /\ self' = self)]_vars

\* a __call__ has taken the upper branch with m_lo # m_up and its input is
\* above z_lo of the state it stored
C10_Witness ==
    /\ obj = "live" /\ op = "call" /\ err = "ok" /\ br = "up"
    /\ ValidParams(self)
    /\ self.m_lo # self.m_up
    /\ RGt(arg.u, z_lo(self)[1])

====
